---- MODULE Spec2Model ----
(***************************************************************************)
(* A model of scripts/process.py: the EPUB-to-site pipeline.               *)
(*                                                                         *)
(* Text is modelled as a sequence of one-character strings, so that the    *)
(* cleaning, slug and length computations of the script are computed the   *)
(* way the script computes them.                                           *)
(***************************************************************************)
EXTENDS Integers, Sequences, FiniteSets, TLC

(***************************************************************************)
(* Characters and strings                                                  *)
(***************************************************************************)
UPPER == <<"A","B","C","D","E","F","G","H","I","J","K","L","M","N","O","P","Q","R","S","T","U","V","W","X","Y","Z">>

LOWER == <<"a","b","c","d","e","f","g","h","i","j","k","l","m","n","o","p","q","r","s","t","u","v","w","x","y","z">>

DIGITS == <<"0","1","2","3","4","5","6","7","8","9">>

\* The characters the model's texts use, in code-point order.
ASCII == <<"\n">> \o <<" ","!">> \o <<"\"">> \o <<"&">> \o <<"'">> \o <<"-",".","/","0","1","2","3","4","5","6","7","8","9","<","=",">">> \o UPPER \o <<"_">> \o LOWER \o <<"|">>

Range(s) == { s[i] : i \in DOMAIN s }

Ord(c) == CHOOSE i \in DOMAIN ASCII : ASCII[i] = c

IsUpper(c) == c \in Range(UPPER)

IsDigit(c) == c \in Range(DIGITS)

\* \w of the re module: letters, digits and the underscore.
IsWord(c) == c \in Range(UPPER) \cup Range(LOWER) \cup Range(DIGITS) \cup {"_"}

\* \s of the re module, and what str.strip() removes.
IsSpace(c) == c \in {" ", "\n", "\t"}

LowerChar(c) == IF IsUpper(c) THEN LOWER[CHOOSE i \in DOMAIN UPPER : UPPER[i] = c] ELSE c

\* str.lower()
Lower(s) == [i \in DOMAIN s |-> LowerChar(s[i])]

\* s[:n]
Take(s, n) == SubSeq(s, 1, IF n < Len(s) THEN n ELSE Len(s))

\* s[n:] (n counted from 0, as in Python)
Drop(s, n) == SubSeq(s, n + 1, Len(s))

\* p occurs in s at position i (1-based)
HasAt(s, i, p) == /\ i >= 1
                  /\ i + Len(p) - 1 <= Len(s)
                  /\ \A k \in 1..Len(p) : s[i + k - 1] = p[k]

\* p in s
Contains(s, p) == \E i \in 1..(Len(s) + 1) : HasAt(s, i, p)

\* the least element of a non-empty set of numbers
Min(S) == CHOOSE i \in S : \A j \in S : i <= j

\* str.strip()
Strip(s) ==
    LET keep == { i \in DOMAIN s : ~IsSpace(s[i]) }
    IN  IF keep = {} THEN <<>>
        ELSE SubSeq(s, Min(keep), CHOOSE i \in keep : \A j \in keep : i >= j)

\* the positions of s, in order
Positions(s) == [i \in 1..Len(s) |-> i]

\* re.sub(r'\s+', ' ', s): every run of whitespace becomes one space.
CollapseSpace(s) ==
    LET kept == SelectSeq(Positions(s), LAMBDA i : ~IsSpace(s[i]) \/ i = 1 \/ ~IsSpace(s[i - 1]))
    IN  [k \in DOMAIN kept |-> IF IsSpace(s[kept[k]]) THEN " " ELSE s[kept[k]]]

\* re.sub(r'-+', '-', s): every run of hyphens becomes one hyphen.
CollapseHyphen(s) ==
    LET kept == SelectSeq(Positions(s), LAMBDA i : s[i] # "-" \/ i = 1 \/ s[i - 1] # "-")
    IN  [k \in DOMAIN kept |-> s[kept[k]]]

\* str(n) for a natural number
RECURSIVE Str(_)
Str(n) == IF n < 10 THEN <<DIGITS[n + 1]>> ELSE Str(n \div 10) \o <<DIGITS[(n % 10) + 1]>>

\* c repeated n times
Rep(c, n) == [i \in 1..n |-> c]

\* sep.join(parts)
RECURSIVE Join(_, _)
Join(sep, parts) ==
    IF parts = <<>> THEN <<>>
    ELSE IF Len(parts) = 1 THEN parts[1]
    ELSE parts[1] \o sep \o Join(sep, Tail(parts))

(***************************************************************************)
(* The date patterns of the script                                         *)
(***************************************************************************)
Months == { <<"J","a","n","u","a","r","y">>, <<"F","e","b","r","u","a","r","y">>, <<"M","a","r","c","h">>, <<"A","p","r","i","l">>, <<"M","a","y">>, <<"J","u","n","e">>, <<"J","u","l","y">>,
            <<"A","u","g","u","s","t">>, <<"S","e","p","t","e","m","b","e","r">>, <<"O","c","t","o","b","e","r">>, <<"N","o","v","e","m","b","e","r">>, <<"D","e","c","e","m","b","e","r">> }

\* the positions after a run of one or more whitespace characters starting at i
SpaceRunEnds(s, i) == { j \in (i + 1)..(Len(s) + 1) : \A k \in i..(j - 1) : IsSpace(s[k]) }

\* the positions after one or two digits starting at i
DigitRunEnds(s, i) == { j \in {i + 1, i + 2} : j <= Len(s) + 1 /\ \A k \in i..(j - 1) : IsDigit(s[k]) }

\* re.match(r'^\d{1,2}\s+(January|...|December)', s)
MatchDayMonth(s) ==
    \E j \in DigitRunEnds(s, 1) : \E k \in SpaceRunEnds(s, j) : \E m \in Months : HasAt(s, k, m)

\* re.search(r'(January|...|December)\s+\d{1,2}', s)
SearchMonthDay(s) ==
    \E i \in DOMAIN s : \E m \in Months :
        /\ HasAt(s, i, m)
        /\ \E j \in SpaceRunEnds(s, i + Len(m)) : DigitRunEnds(s, j) # {}

\* re.search(r'(January|...|December)\s+\d{1,2}(st|nd|rd|th)?\s+202[56]', s)
SearchFullDate(s) ==
    \E i \in DOMAIN s : \E m \in Months :
        /\ HasAt(s, i, m)
        /\ \E j \in SpaceRunEnds(s, i + Len(m)) : \E k \in DigitRunEnds(s, j) :
             \E o \in {<<>>, <<"s","t">>, <<"n","d">>, <<"r","d">>, <<"t","h">>} :
                /\ HasAt(s, k, o)
                /\ \E l \in SpaceRunEnds(s, k + Len(o)) :
                      HasAt(s, l, <<"2","0","2","5">>) \/ HasAt(s, l, <<"2","0","2","6">>)

(***************************************************************************)
(* create_article                                                          *)
(***************************************************************************)
\* title[:147] + "..." is applied to titles longer than TitleMax
TitleMax == 150

TitleCut == 147

\* the slug is cut to SlugMax characters
SlugMax == 50

\* The title as create_article cleans it: whitespace runs collapsed, stripped,
\* cut to 150 characters, and prefixed when it starts like "12 March".
CleanTitle(title, section) ==
    LET t1 == Strip(CollapseSpace(title))
        t2 == IF Len(t1) > TitleMax THEN Take(t1, TitleCut) \o <<".",".",".">> ELSE t1
    IN  IF MatchDayMonth(t2)
        THEN (IF section # <<>> THEN section \o <<" ","-"," ">> \o t2 ELSE <<"A","r","t","i","c","l","e"," ","-"," ">> \o t2)
        ELSE t2

\* re.sub(r'[^\w\s-]', '', title).strip().replace(' ', '-').lower()[:50],
\* then runs of hyphens collapsed.
Slugify(title) ==
    LET kept   == SelectSeq(title, LAMBDA c : IsWord(c) \/ IsSpace(c) \/ c = "-")
        dashed == [i \in DOMAIN Strip(kept) |-> IF Strip(kept)[i] = " " THEN "-" ELSE Strip(kept)[i]]
    IN  CollapseHyphen(Take(Lower(dashed), SlugMax))

\* f"{base_slug}-{counter}"
Suffixed(base_slug, counter) == base_slug \o <<"-">> \o Str(counter)

\* the while loop of create_article, entered with slug = base_slug-counter
RECURSIVE FirstFree(_, _, _)
FirstFree(base_slug, counter, existing) ==
    IF Suffixed(base_slug, counter) \in existing
    THEN FirstFree(base_slug, counter + 1, existing)
    ELSE Suffixed(base_slug, counter)

\* The loop taken as a single test: one suffix is tried and not checked again.
UniqueSlugOnce(base_slug, existing) ==
    IF base_slug \in existing THEN Suffixed(base_slug, 1) ELSE base_slug

\* The loop with the counter incremented before its first use.
UniqueSlugFromTwo(base_slug, existing) ==
    IF base_slug \in existing THEN FirstFree(base_slug, 2, existing) ELSE base_slug

\* The slug used as computed, without the loop.
KeepBaseSlug(base_slug, existing) == base_slug

\* counter = 1; while os.path.exists(f'output/articles/{slug}.html'): ...
\* `existing` is the set of slugs that have a file in output/articles.
UniqueSlug(base_slug, existing) ==
    IF base_slug \in existing THEN FirstFree(base_slug, 1, existing) ELSE base_slug

\* s.split(sep) for a non-empty separator: the text from `start` on
RECURSIVE SplitFrom(_, _, _)
SplitFrom(s, sep, start) ==
    LET found == { i \in start..Len(s) : HasAt(s, i, sep) }
    IN  IF found = {} THEN <<SubSeq(s, start, Len(s))>>
        ELSE <<SubSeq(s, start, Min(found) - 1)>> \o SplitFrom(s, sep, Min(found) + Len(sep))

Split(s, sep) == SplitFrom(s, sep, 1)

\* plain text becomes one <p> per blank-line separated paragraph
ToParagraphs(content) ==
    LET stripped == [i \in DOMAIN Split(content, <<"\n","\n">>) |-> Strip(Split(content, <<"\n","\n">>)[i])]
        nonempty == SelectSeq(stripped, LAMBDA p : p # <<>>)
    IN  Join(<<"\n">>, [i \in DOMAIN nonempty |-> <<"<","p",">">> \o nonempty[i] \o <<"<","/","p",">">>])

\* One element of a pattern: a quote character class, the dot, or a literal.
MatchEl(e, c) == IF e = "QUOTE" THEN c \in {"\"", "'"}
                 ELSE IF e = "DOT" THEN c # "\n"
                 ELSE c = e

MatchAt(s, i, pat) == /\ i + Len(pat) - 1 <= Len(s)
                      /\ \A k \in 1..Len(pat) : MatchEl(pat[k], s[i + k - 1])

\* re.sub(pat, rep, s) for a pattern of fixed length: the text from `start` on
RECURSIVE ReSubFrom(_, _, _, _)
ReSubFrom(s, start, pat, rep) ==
    LET found == { i \in start..Len(s) : MatchAt(s, i, pat) }
    IN  IF found = {} THEN SubSeq(s, start, Len(s))
        ELSE SubSeq(s, start, Min(found) - 1) \o rep \o ReSubFrom(s, Min(found) + Len(pat), pat, rep)

ReSub(pat, rep, s) == ReSubFrom(s, 1, pat, rep)

SrcQuote == <<"s","r","c","=">> \o <<"QUOTE">>

DotDotSlash == <<"DOT", "DOT", "/">>

\* the three image path substitutions, in the order of the script
FixImagePaths(content) ==
    LET c1 == ReSub(SrcQuote \o <<"s","t","a","t","i","c","_","i","m","a","g","e","s","/">>, <<"s","r","c","=","\"","/","i","m","a","g","e","s","/">>, content)
        c2 == ReSub(SrcQuote \o DotDotSlash \o <<"s","t","a","t","i","c","_","i","m","a","g","e","s","/">>, <<"s","r","c","=","\"","/","i","m","a","g","e","s","/">>, c1)
    IN  ReSub(SrcQuote \o DotDotSlash \o DotDotSlash \o <<"s","t","a","t","i","c","_","i","m","a","g","e","s","/">>, <<"s","r","c","=","\"","/","i","m","a","g","e","s","/">>, c2)

\* the body written into the article page
ArticleBody(content) ==
    LET stripped == Strip(content)
        asHtml   == IF stripped # <<>> /\ stripped[1] = "<" THEN content ELSE ToParagraphs(content)
    IN  FixImagePaths(asHtml)

\* the directory output/articles with one more file
WithFile(files, slug, page) ==
    [s \in DOMAIN files \cup {slug} |-> IF s = slug THEN page ELSE files[s]]

NoArticle == [title |-> <<>>, slug |-> <<>>, path |-> <<>>, section |-> <<>>]

\* What create_article computes from its arguments alone: the cleaned title, the
\* slug before the uniqueness loop, and the body of the page.
PreparePage(title, date, section, content) ==
    [title |-> CleanTitle(title, section), base_slug |-> Slugify(CleanTitle(title, section)),
     section |-> section, date |-> date, content |-> ArticleBody(content)]

\* create_article from the uniqueness loop on, with output/articles holding `files`:
\* the slug is made unique against the directory, the page is written, the record
\* returned. io_ok = FALSE is the run in which opening the page for writing raises.
create_article(page, files, io_ok) ==
    LET slug == UniqueSlug(page.base_slug, DOMAIN files)
    IN  IF io_ok
        THEN [raised |-> FALSE,
              files |-> WithFile(files, slug, [title |-> page.title, section |-> page.section,
                                               date |-> page.date, content |-> page.content]),
              article |-> [title |-> page.title, slug |-> slug,
                           path |-> <<"a","r","t","i","c","l","e","s","/">> \o slug \o <<".","h","t","m","l">>, section |-> page.section]]
        ELSE [raised |-> TRUE, files |-> files, article |-> NoArticle]

(***************************************************************************)
(* parse_article_text: one article of the "Section | Subtitle" text path   *)
(***************************************************************************)
\* a text-path candidate needs at least this many characters of content
MinTextContent == 100

\* a title line is longer than TitleLineMin and shorter than TitleLineMax
TitleLineMin == 10

TitleLineMax == 200

DownloadNote == <<"T","h","i","s"," ","a","r","t","i","c","l","e"," ","w","a","s"," ","d","o","w","n","l","o","a","d","e","d"," ","b","y"," ","z","l","i","b","r","a","r","y"," ","f","r","o","m"," ","h","t","t","p">>

\* the first position at or after k that holds whitespace (or the end)
NonSpaceRunEnd(s, k) ==
    LET stops == { j \in k..Len(s) : IsSpace(s[j]) }
    IN  IF stops = {} THEN Len(s) + 1 ELSE Min(stops)

\* where a match of  DownloadNote s? :// \S+  starting at i ends (0: no match)
DownloadNoteEnd(s, i) ==
    LET j == i + Len(DownloadNote)
    IN  IF ~HasAt(s, i, DownloadNote) THEN 0
        ELSE IF HasAt(s, j, <<"s",":","/","/">>) /\ j + 4 <= Len(s) /\ ~IsSpace(s[j + 4])
             THEN NonSpaceRunEnd(s, j + 4)
        ELSE IF HasAt(s, j, <<":","/","/">>) /\ j + 3 <= Len(s) /\ ~IsSpace(s[j + 3])
             THEN NonSpaceRunEnd(s, j + 3)
        ELSE 0

\* re.sub(r'This article was downloaded by zlibrary from https?://\S+', '', content):
\* the text from `start` on
RECURSIVE RemoveDownloadNoteFrom(_, _)
RemoveDownloadNoteFrom(s, start) ==
    LET found == { i \in start..Len(s) : DownloadNoteEnd(s, i) > 0 }
    IN  IF found = {} THEN SubSeq(s, start, Len(s))
        ELSE SubSeq(s, start, Min(found) - 1) \o RemoveDownloadNoteFrom(s, DownloadNoteEnd(s, Min(found)))

RemoveDownloadNote(s) == RemoveDownloadNoteFrom(s, 1)

\* lines = [l.strip() for l in text.split('\n') if l.strip()]
StrippedLines(text) ==
    SelectSeq([i \in DOMAIN text |-> Strip(text[i])], LAMBDA l : l # <<>>)

\* a line that can serve as the title
IsTitleLine(line) ==
    /\ Len(line) > TitleLineMin
    /\ Len(line) < TitleLineMax
    /\ IsUpper(line[1])
    /\ ~MatchDayMonth(line)

\* The loop over the lines: st holds title, date and content_start.
RECURSIVE ScanLines(_, _, _, _)
ScanLines(lines, i, subtitle, st) ==
    IF i > Len(lines) THEN st
    ELSE IF lines[i] = subtitle \/ Contains(lines[i], subtitle)
         THEN ScanLines(lines, i + 1, subtitle, st)
    ELSE IF SearchFullDate(lines[i])
         THEN ScanLines(lines, i + 1, subtitle, [st EXCEPT !.date = lines[i], !.content_start = i])
    ELSE IF st.title = <<>> /\ IsTitleLine(lines[i])
         THEN ScanLines(lines, i + 1, subtitle, [st EXCEPT !.title = lines[i], !.content_start = i])
    ELSE ScanLines(lines, i + 1, subtitle, st)

\* the content of the candidate: the lines from content_start on, blank-line joined
TextContent(lines, content_start) == RemoveDownloadNote(Join(<<"\n","\n">>, Drop(lines, content_start)))

\* parse_article_text(text, section_name, subtitle), text given as its lines: the
\* create_article call it ends in (a sequence of one page), or none (None returned).
parse_article_text(text, section_name, subtitle) ==
    LET lines == StrippedLines(text)
        st    == ScanLines(lines, 1, subtitle, [title |-> <<>>, date |-> <<>>, content_start |-> 0])
        title == IF st.title = <<>> THEN subtitle ELSE st.title
    IN  IF lines = <<>> THEN <<>>
        ELSE IF title = <<>> \/ title = st.date THEN <<>>
        ELSE IF Len(TextContent(lines, st.content_start)) < MinTextContent THEN <<>>
        ELSE <<PreparePage(title, st.date, section_name, TextContent(lines, st.content_start))>>

(***************************************************************************)
(* parse_html_file                                                         *)
(***************************************************************************)
\* an h1-path candidate needs more than this many characters of markup
MinHtmlContent == 200

\* str(tag) of an element of the document
Serialize(node) ==
    <<"<">> \o node.name \o <<">">>
    \o (IF node.src # <<>> THEN <<"<","i","m","g"," ","s","r","c","=","\"">> \o node.src \o <<"\"","/",">">> ELSE <<>>)
    \o node.text \o <<"<","/">> \o node.name \o <<">">>

\* soup(['script', 'style']) decomposed
Visible(children) == SelectSeq(children, LAMBDA n : n.name \notin {<<"s","c","r","i","p","t">>, <<"s","t","y","l","e">>})

\* the index of the first h1 after position h, or one past the end
NextH1(children, h) ==
    LET later == { i \in (h + 1)..Len(children) : children[i].name = <<"h","1">> }
    IN  IF later = {} THEN Len(children) + 1 ELSE Min(later)

\* get_content_html(start_tag): the siblings after the h1 at position h, up to the next h1
get_content_html(children, h) ==
    Join(<<"\n">>, [i \in 1..(NextH1(children, h) - h - 1) |-> Serialize(children[h + i])])

\* the date of the h1 path: the first h2/h3/p sibling after the h1 that names a month and a day
H1Date(children, h) ==
    LET dated == { i \in (h + 1)..Len(children) :
                      /\ children[i].name \in {<<"h","2">>, <<"h","3">>, <<"p">>}
                      /\ SearchMonthDay(Strip(children[i].text)) }
    IN  IF dated = {} THEN <<>>
        ELSE Strip(children[Min(dated)].text)

\* The loop over the "Section | Subtitle" matches: the create_article calls, in order.
RECURSIVE TextPath(_, _)
TextPath(matches, i) ==
    IF i > Len(matches) THEN <<>>
    ELSE parse_article_text(matches[i].text, matches[i].section, matches[i].subtitle)
         \o TextPath(matches, i + 1)

\* The h1 structure path, on the first h1 of the body only: its create_article call.
H1Path(children) ==
    LET hs == { i \in DOMAIN children : children[i].name = <<"h","1">> }
        h  == Min(hs)
    IN  IF hs = {} THEN <<>>
        ELSE IF Len(get_content_html(children, h)) > MinHtmlContent
             THEN <<PreparePage(Strip(children[h].text), H1Date(children, h), <<>>,
                                get_content_html(children, h))>>
             ELSE <<>>

\* The create_article calls parse_html_file makes on a document, in order.
ArticleCalls(doc) ==
    IF ~doc.body THEN <<>>
    ELSE IF doc.matches # <<>> THEN TextPath(doc.matches, 1)
    ELSE H1Path(Visible(doc.children))

\* The calls of create_article run against the output directory. acc: the articles
\* whose page is written so far, the directory, whether the run raised. failAt names
\* the call at which the run raises (0: none): at the open() of its page when
\* failStep is "open", at the print() that follows its return when it is "print".
RECURSIVE RunCalls(_, _, _, _, _)
RunCalls(pages, i, acc, failAt, failStep) ==
    IF i > Len(pages) \/ acc.raised THEN acc
    ELSE LET r == create_article(pages[i], acc.files, ~(i = failAt /\ failStep = "open"))
         IN  RunCalls(pages, i + 1,
                      [articles |-> IF r.raised THEN acc.articles ELSE Append(acc.articles, r.article),
                       files |-> r.files,
                       raised |-> r.raised \/ (i = failAt /\ failStep = "print")],
                      failAt, failStep)

(***************************************************************************)
(* get_sections_order, the slug deduplication, generate_index, generate_rss*)
(***************************************************************************)
SectionKeywords ==
    << <<"t","h","e"," ","w","o","r","l","d"," ","t","h","i","s"," ","w","e","e","k">>, <<"l","e","a","d","e","r","s">>, <<"l","e","t","t","e","r","s">>, <<"b","y"," ","i","n","v","i","t","a","t","i","o","n">>,
       <<"b","r","i","e","f","i","n","g">>, <<"u","n","i","t","e","d"," ","s","t","a","t","e","s">>, <<"t","h","e"," ","a","m","e","r","i","c","a","s">>, <<"a","s","i","a">>, <<"c","h","i","n","a">>,
       <<"m","i","d","d","l","e"," ","e","a","s","t">>, <<"a","f","r","i","c","a">>, <<"e","u","r","o","p","e">>, <<"b","r","i","t","a","i","n">>, <<"i","n","t","e","r","n","a","t","i","o","n","a","l">>,
       <<"b","u","s","i","n","e","s","s">>, <<"f","i","n","a","n","c","e">>, <<"s","c","i","e","n","c","e">>, <<"t","e","c","h","n","o","l","o","g","y">>, <<"c","u","l","t","u","r","e">>,
       <<"e","c","o","n","o","m","i","c">>, <<"f","i","n","a","n","c","i","a","l"," ","i","n","d","i","c","a","t","o","r","s">>, <<"o","b","i","t","u","a","r","y">> >>

\* link texts longer than this are no section names
SectionTextMax == 100

\* whether a link text of the contents page is kept as a section name
IsSectionText(text) ==
    /\ text # <<>>
    /\ Len(text) < SectionTextMax
    /\ ~HasAt(text, 1, <<"h","t","t","p">>)
    /\ \E k \in DOMAIN SectionKeywords : Contains(Lower(text), SectionKeywords[k])

\* get_sections_order on the link texts of the first contents file that has any:
\* the section texts in order, each once.
RECURSIVE SectionsFrom(_, _, _)
SectionsFrom(links, i, sections) ==
    IF i > Len(links) THEN sections
    ELSE IF IsSectionText(Strip(links[i])) /\ Strip(links[i]) \notin Range(sections)
         THEN SectionsFrom(links, i + 1, Append(sections, Strip(links[i])))
         ELSE SectionsFrom(links, i + 1, sections)

get_sections_order(links) == SectionsFrom(links, 1, <<>>)

\* the loop of main that keeps the first article of every slug
RECURSIVE DedupFrom(_, _, _, _)
DedupFrom(arts, i, seen, unique) ==
    IF i > Len(arts) THEN unique
    ELSE IF arts[i].slug \notin seen
         THEN DedupFrom(arts, i + 1, seen \cup {arts[i].slug}, Append(unique, arts[i]))
         ELSE DedupFrom(arts, i + 1, seen, unique)

DedupBySlug(arts) == DedupFrom(arts, 1, {}, <<>>)

\* the keys of by_section, in insertion order: each section at its first article
RECURSIVE SectionKeysFrom(_, _, _)
SectionKeysFrom(arts, i, keys) ==
    IF i > Len(arts) THEN keys
    ELSE IF arts[i].section \in Range(keys) THEN SectionKeysFrom(arts, i + 1, keys)
    ELSE SectionKeysFrom(arts, i + 1, Append(keys, arts[i].section))

SectionKeys(arts) == SectionKeysFrom(arts, 1, <<>>)

\* by_section[sec]: the articles of a section, in list order
BySection(arts, sec) == SelectSeq(arts, LAMBDA a : a.section = sec)

\* sec.lower() in key.lower() or key.lower() in sec.lower()
FuzzyMatch(sec, key) == Contains(Lower(key), Lower(sec)) \/ Contains(Lower(sec), Lower(key))

\* the keys that match contents section sec and are not yet placed, in key order
RECURSIVE PlaceKeys(_, _, _, _)
PlaceKeys(sec, keys, k, ordered) ==
    IF k > Len(keys) THEN ordered
    ELSE IF FuzzyMatch(sec, keys[k]) /\ keys[k] \notin Range(ordered)
         THEN PlaceKeys(sec, keys, k + 1, Append(ordered, keys[k]))
         ELSE PlaceKeys(sec, keys, k + 1, ordered)

RECURSIVE OrderBySections(_, _, _, _)
OrderBySections(sections_order, i, keys, ordered) ==
    IF i > Len(sections_order) THEN ordered
    ELSE OrderBySections(sections_order, i + 1, keys, PlaceKeys(sections_order[i], keys, 1, ordered))

\* ordered_sections: the keys the contents page orders, then the remaining keys
OrderedSections(arts, sections_order) ==
    LET keys   == SectionKeys(arts)
        placed == OrderBySections(sections_order, 1, keys, <<>>)
    IN  placed \o SelectSeq(keys, LAMBDA key : key \notin Range(placed))

\* the lines of one group of the index: the section title, then its articles
IndexGroup(arts, sec) ==
    <<[kind |-> "section-title", text |-> sec, href |-> <<>>]>>
    \o [i \in DOMAIN BySection(arts, sec) |->
          [kind |-> "article", text |-> BySection(arts, sec)[i].title, href |-> BySection(arts, sec)[i].path]]

RECURSIVE IndexGroups(_, _, _)
IndexGroups(arts, ordered, i) ==
    IF i > Len(ordered) THEN <<>>
    ELSE IndexGroup(arts, ordered[i]) \o IndexGroups(arts, ordered, i + 1)

\* A listing in discovery order, with a section title before every run of articles
\* of one section.
RunGroupedIndex(arts, sections_order) ==
    LET line(i) == [kind |-> "article", text |-> arts[i].title, href |-> arts[i].path]
        head(i) == IF i = 1 \/ arts[i - 1].section # arts[i].section
                   THEN <<[kind |-> "section-title", text |-> arts[i].section, href |-> <<>>]>>
                   ELSE <<>>
        upto[i \in 0..Len(arts)] == IF i = 0 THEN <<>> ELSE upto[i - 1] \o head(i) \o <<line(i)>>
    IN  upto[Len(arts)]

\* generate_index(articles, sections_order): the listing written to output/index.html
generate_index(arts, sections_order) == IndexGroups(arts, OrderedSections(arts, sections_order), 1)

\* the feed holds the first RssMax articles
RssMax == 30

\* generate_rss(articles): one item per article whose page can be read
generate_rss(arts, files) ==
    LET readable == SelectSeq(Take(arts, RssMax), LAMBDA a : a.slug \in DOMAIN files)
    IN  [i \in DOMAIN readable |->
           [title |-> readable[i].title, link |-> readable[i].path,
            section |-> readable[i].section, body |-> files[readable[i].slug]]]

(***************************************************************************)
(* get_spine_order and find_file                                           *)
(***************************************************************************)
\* s.endswith(suffix)
EndsWith(s, suffix) == Len(suffix) <= Len(s) /\ HasAt(s, Len(s) - Len(suffix) + 1, suffix)

\* the positions of the slashes of a path
Slashes(path) == { i \in DOMAIN path : path[i] = "/" }

Max(S) == CHOOSE i \in S : \A j \in S : i >= j

\* os.path.dirname(path)
Dirname(path) == IF Slashes(path) = {} THEN <<>> ELSE SubSeq(path, 1, Max(Slashes(path)) - 1)

\* the file name of a path, as os.walk lists it
Basename(path) == IF Slashes(path) = {} THEN path ELSE SubSeq(path, Max(Slashes(path)) + 1, Len(path))

\* os.path.join(dir, name)
PathJoin(dir, name) ==
    IF name # <<>> /\ name[1] = "/" THEN name
    ELSE IF dir = <<>> \/ dir[Len(dir)] = "/" THEN dir \o name
    ELSE dir \o <<"/">> \o name

\* a < b for str: the comparison by code points that list.sort() uses
LexLess(a, b) ==
    \E k \in 1..Len(b) :
        /\ k - 1 <= Len(a)
        /\ \A j \in 1..(k - 1) : a[j] = b[j]
        /\ (k > Len(a) \/ Ord(a[k]) < Ord(b[k]))

\* one path put into a sorted list
RECURSIVE InsertSorted(_, _)
InsertSorted(sorted, path) ==
    IF sorted = <<>> THEN <<path>>
    ELSE IF LexLess(path, Head(sorted)) THEN <<path>> \o sorted
    ELSE <<Head(sorted)>> \o InsertSorted(Tail(sorted), path)

\* files.sort()
RECURSIVE SortPaths(_)
SortPaths(files) ==
    IF files = <<>> THEN <<>>
    ELSE InsertSorted(SortPaths(SubSeq(files, 1, Len(files) - 1)), files[Len(files)])

\* find_file(root, filename): the first file, in the order os.walk lists the files,
\* whose name ends with filename; <<>> stands for None
find_file(walked, filename) ==
    LET found == { i \in DOMAIN walked : EndsWith(Basename(walked[i]), filename) }
    IN  IF found = {} THEN <<>> ELSE walked[Min(found)]

\* f.endswith(('.html', '.xhtml', '.htm'))
IsContentDocument(path) ==
    \E ext \in {<<".","h","t","m","l">>, <<".","x","h","t","m","l">>, <<".","h","t","m">>} : EndsWith(Basename(path), ext)

\* the manifest dictionary: id -> path, a later item replacing an earlier one of the same id
RECURSIVE ManifestFrom(_, _, _, _)
ManifestFrom(items, i, dir, manifest) ==
    IF i > Len(items) THEN manifest
    ELSE IF items[i].id # <<>> /\ items[i].href # <<>>
         THEN ManifestFrom(items, i + 1, dir, (items[i].id :> PathJoin(dir, items[i].href)) @@ manifest)
         ELSE ManifestFrom(items, i + 1, dir, manifest)

\* the loop over the itemrefs of the spine
RECURSIVE ResolveFrom(_, _, _)
ResolveFrom(itemrefs, i, manifest) ==
    IF i > Len(itemrefs) THEN <<>>
    ELSE (IF itemrefs[i] \in DOMAIN manifest THEN <<manifest[itemrefs[i]]>> ELSE <<>>)
         \o ResolveFrom(itemrefs, i + 1, manifest)

\* The reading order taken from the manifest items instead of the spine.
ManifestOrderFiles(opf, opf_path) ==
    IF ~opf.parses THEN <<>>
    ELSE LET kept == SelectSeq(opf.items, LAMBDA it : it.id # <<>> /\ it.href # <<>>)
         IN  [i \in DOMAIN kept |-> PathJoin(Dirname(opf_path), kept[i].href)]

\* the try block of get_spine_order on the descriptor at opf_path with content opf:
\* the files of the spine, or none when the descriptor does not parse
SpineFiles(opf, opf_path) ==
    IF ~opf.parses THEN <<>>
    ELSE ResolveFrom(opf.itemrefs, 1,
                     ManifestFrom(opf.items, 1, Dirname(opf_path), [id \in {} |-> <<>>]))

\* The fallback without its sort: the content documents in walk order.
UnsortedFiles(walked) == SelectSeq(walked, IsContentDocument)

\* the fallback of get_spine_order: the content documents in walk order, sorted
FallbackFiles(walked) == SortPaths(SelectSeq(walked, IsContentDocument))

(***************************************************************************)
(* The documents of the package the pipeline is run on                     *)
(***************************************************************************)
\* body text that is no title line (it does not start with a capital)
Filler(n) == Rep("x", n)

Element(name, text) == [name |-> name, text |-> text, src |-> <<>>]

Image(name, src, text) == [name |-> name, text |-> text, src |-> src]

\* one match of the section pattern: group 1, group 2 stripped, and the lines of
\* the text from the end of the match to the start of the next match
Marker(section, subtitle, text) == [section |-> section, subtitle |-> subtitle, text |-> text]

\* a document with "Section | Subtitle" markers in its text
TextDoc(matches) == [economist |-> TRUE, body |-> TRUE, matches |-> matches, children |-> <<>>]

\* a document without markers: the h1 and its siblings
HtmlDoc(children) == [economist |-> TRUE, body |-> TRUE, matches |-> <<>>, children |-> children]

DocA == TextDoc(<< Marker(<<"A","s","i","a">>, <<"C","h","i","p"," ","w","a","r","s">>, << <<"G","l","o","b","a","l"," ","M","a","r","k","e","t","s">>, Filler(210) >>),
                   Marker(<<"C","h","i","n","a">>, <<"T","a","r","i","f","f","s"," ","b","i","t","e">>, << <<" "," ","G","l","o","b","a","l"," ","M","a","r","k","e","t","s"," ","1"," ">>, Filler(120) >>) >>)

DocB == TextDoc(<< Marker(<<"A","s","i","a">>, <<"R","a","t","e","s">>, << <<"R","a","t","e","s"," ","a","n","d"," ","m","o","r","e">>, <<"G","l","o","b","a","l"," "," ","m","a","r","k","e","t","s","!">>, <<"M","a","r","c","h"," ","3","r","d"," ","2","0","2","5">>, Filler(150) >>),
                   Marker(<<"L","e","a","d","e","r","s">>, <<"I","n"," ","b","r","i","e","f">>, << <<"A"," ","s","h","o","r","t"," ","n","o","t","e">>, Filler(99) >>) >>)

DocC == TextDoc(<< Marker(<<"C","h","i","n","a">>, <<"G","l","o","b","a","l"," ","M","a","r","k","e","t","s">>, << Filler(100) >>) >>)

DocD == HtmlDoc(<< Element(<<"h","1">>, <<"G","r","o","w","t","h"," ","S","l","o","w","s">>), Element(<<"p">>, <<"M","a","r","c","h"," ","3">>), Element(<<"p">>, Filler(179)) >>)

DocE == HtmlDoc(<< Element(<<"h","1">>, <<" "," ">>), Image(<<"p">>, <<".",".","/","s","t","a","t","i","c","_","i","m","a","g","e","s","/","x",".","p","n","g">>, Filler(163)) >>)

DocF == HtmlDoc(<< Element(<<"h","1">>, <<"F","i","r","s","t"," ","S","t","o","r","y">>), Element(<<"p">>, Filler(200)), Element(<<"s","c","r","i","p","t">>, Filler(3)),
                   Element(<<"h","1">>, <<"S","e","c","o","n","d"," ","S","t","o","r","y">>), Element(<<"p">>, Filler(201)) >>)

DocG == HtmlDoc(<< Element(<<"h","2">>, <<"C","o","n","t","e","n","t","s">>), Element(<<"h","1">>, <<"S","t","u","b">>), Element(<<"p">>, Filler(193)) >>)

\* a document that names neither 'The Economist' nor 'economist.com'
DocH == [economist |-> FALSE, body |-> TRUE, matches |-> <<>>,
         children |-> << Element(<<"h","1">>, <<"A","d","v","e","r","t","i","s","e","m","e","n","t">>), Element(<<"p">>, Filler(250)) >>]

\* a document without a body element
DocI == [economist |-> TRUE, body |-> FALSE, matches |-> <<>>, children |-> <<>>]

epub_root == <<"t","e","m","p","_","e","p","u","b">>

PathA == epub_root \o <<"/","a",".","h","t","m","l">>

PathB == epub_root \o <<"/","b",".","h","t","m","l">>

PathC == epub_root \o <<"/","c",".","h","t","m","l">>

PathD == epub_root \o <<"/","d",".","h","t","m","l">>

PathE == epub_root \o <<"/","e",".","h","t","m","l">>

PathF == epub_root \o <<"/","f",".","h","t","m","l">>

PathG == epub_root \o <<"/","g",".","h","t","m","l">>

PathH == epub_root \o <<"/","h",".","h","t","m","l">>

PathI == epub_root \o <<"/","i",".","h","t","m","l">>

\* a path the manifest names that is not in the package
PathMissing == epub_root \o <<"/","g","o","n","e",".","h","t","m","l">>

\* the readable content documents, by path
Docs == (PathA :> DocA) @@ (PathB :> DocB) @@ (PathC :> DocC) @@ (PathD :> DocD) @@ (PathE :> DocE)
        @@ (PathF :> DocF) @@ (PathG :> DocG) @@ (PathH :> DocH) @@ (PathI :> DocI)

\* the create_article calls each readable document leads to
Prepared == [p \in DOMAIN Docs |-> ArticleCalls(Docs[p])]

\* parse_html_file(html_content, filepath, sections_order) on the document at
\* `path`, with output/articles holding `files`; failAt and failStep as in RunCalls
parse_html_file(path, files, failAt, failStep) ==
    RunCalls(Prepared[path], 1, [articles |-> <<>>, files |-> files, raised |-> FALSE], failAt, failStep)

\* the paths a reading order may hold
SpinePaths == DOMAIN Docs \cup {PathMissing}

\* the link texts of the contents page: none, or a page with sections
TocLinks == { <<>>, << <<" ","C","h","i","n","a"," ">>, <<"A","d","v","e","r","t","i","s","e","m","e","n","t">>, <<"h","t","t","p",":","/","/","c","h","i","n","a">>, <<"A","s","i","a">>, <<"C","h","i","n","a">> >> }

\* the longest reading order the model runs
MaxDocs == 2

(***************************************************************************)
(* The packages get_spine_order is run on                                  *)
(***************************************************************************)
oebps == epub_root \o <<"/","O","E","B","P","S">>

ContentOpf == oebps \o <<"/","c","o","n","t","e","n","t",".","o","p","f">>

OldOpf == oebps \o <<"/","o","l","d",".","o","p","f">>

\* the files a package may hold
PackageFiles == { epub_root \o <<"/","t","o","c",".","h","t","m","l">>, ContentOpf, OldOpf, oebps \o <<"/","c","h","1",".","h","t","m","l">>,
                  oebps \o <<"/","c","h","2",".","x","h","t","m","l">>, oebps \o <<"/","C","o","v","e","r",".","h","t","m">>, oebps \o <<"/","s","t","y","l","e",".","c","s","s">> }

Item(id, href) == [id |-> id, href |-> href]

\* a descriptor whose spine resolves, with an unknown idref, an item without href,
\* an id given twice and a document read twice
GoodOpf == [parses |-> TRUE,
            items |-> << Item(<<"c","1">>, <<"C","o","v","e","r",".","h","t","m">>), Item(<<"c","2">>, <<"c","h","2",".","x","h","t","m","l">>), Item(<<"c","1">>, <<"c","h","1",".","h","t","m","l">>),
                         Item(<<"n","o","h","r","e","f">>, <<>>), Item(<<"t","o","c">>, <<".",".","/","t","o","c",".","h","t","m","l">>) >>,
            itemrefs |-> << <<"c","2">>, <<"g","h","o","s","t">>, <<"c","1">>, <<"n","o","h","r","e","f">>, <<"c","2">> >>]

\* a descriptor none of whose spine entries resolves
UnresolvedOpf == [parses |-> TRUE, items |-> << Item(<<"c","1">>, <<"c","h","1",".","h","t","m","l">>) >>, itemrefs |-> << <<"g","h","o","s","t">>, <<>> >>]

\* a descriptor that is not well-formed XML
BrokenOpf == [parses |-> FALSE, items |-> <<>>, itemrefs |-> <<>>]

\* the descriptor of an older edition left in the package
OlderOpf == [parses |-> TRUE, items |-> << Item(<<"t","o","c">>, <<".",".","/","t","o","c",".","h","t","m","l">>), Item(<<"c","1">>, <<"c","h","1",".","h","t","m","l">>) >>,
             itemrefs |-> << <<"t","o","c">>, <<"c","1">> >>]

\* the most files a package of the model holds
MaxFiles == 4

\* w lists the files of a package the way os.walk can: each file once, the files of a
\* directory before the files of the directories below it
IsWalkOf(w, files) ==
    /\ Range(w) = files
    /\ \A i, j \in DOMAIN w : i < j =>
          /\ w[i] # w[j]
          /\ ~(Len(Dirname(w[j])) < Len(Dirname(w[i])) /\ HasAt(Dirname(w[i]), 1, Dirname(w[j])))

(***************************************************************************)
(* main                                                                    *)
(***************************************************************************)
VARIABLES
    pc,               \* where main is: "spine", "loop", "index", "rss", "done", "exit"
    sections_order,   \* the result of get_sections_order
    spine_files,      \* the result of get_spine_order
    idx,              \* the position of the for loop in spine_files
    processed_files,  \* the set of processed paths
    all_articles,     \* the article records, in reading order
    articles,         \* what the last parse_html_file returned
    out_articles,     \* the directory output/articles: slug -> page
    written,          \* the slugs of the pages written, in the order written
    errors,           \* the positions of spine_files main printed an error for
    unique_articles,  \* all_articles after the slug deduplication
    index_html,       \* the listing of output/index.html
    feed,             \* the items of output/feed.xml
    epub,             \* the files under temp_epub
    walked,           \* the files under temp_epub in the order os.walk lists them
    opf_text,         \* the content of each package descriptor: path -> descriptor
    opf_path,         \* the descriptor find_file found (<<>>: None)
    files,            \* the list get_spine_order builds
    spine_pc          \* where get_spine_order is: "manifest", "fallback", "done"

vars == <<pc, sections_order, spine_files, idx, processed_files, all_articles, articles,
          out_articles, written, errors, unique_articles, index_html, feed,
          epub, walked, opf_text, opf_path, files, spine_pc>>

\* the variables of main
main_vars == <<pc, sections_order, spine_files, idx, processed_files, all_articles, articles,
               out_articles, written, errors, unique_articles, index_html, feed>>

\* the variables of get_spine_order
spine_vars == <<epub, walked, opf_text, opf_path, files, spine_pc>>

\* the empty directory output/articles
NoFiles == [s \in {} |-> NoArticle]

\* main up to its loop: output cleared, the section order and the reading order read
Init ==
    /\ pc = "loop"
    /\ sections_order \in { get_sections_order(links) : links \in TocLinks }
    /\ spine_files \in UNION { [1..n -> SpinePaths] : n \in 0..MaxDocs }
    /\ idx = 1
    /\ processed_files = {}
    /\ all_articles = <<>>
    /\ articles = <<>>
    /\ out_articles = NoFiles
    /\ written = <<>>
    /\ errors = <<>>
    /\ unique_articles = <<>>
    /\ index_html = <<>>
    /\ feed = <<>>
    /\ epub = {}
    /\ walked = <<>>
    /\ opf_text = (ContentOpf :> GoodOpf) @@ (OldOpf :> OlderOpf)
    /\ opf_path = <<>>
    /\ files = spine_files
    /\ spine_pc = "done"

InLoop == pc = "loop" /\ idx <= Len(spine_files)

filepath == spine_files[idx]

Slugs(arts) == [i \in DOMAIN arts |-> arts[i].slug]

\* if filepath in processed_files: continue
SkipProcessed ==
    /\ InLoop
    /\ filepath \in processed_files
    /\ idx' = idx + 1
    /\ UNCHANGED <<pc, sections_order, spine_files, processed_files, all_articles, articles,
                   out_articles, written, errors, unique_articles, index_html, feed, spine_vars>>

\* open() or read() raises: the error is printed and the loop goes on
ReadError ==
    /\ InLoop
    /\ filepath \notin processed_files
    /\ filepath \notin DOMAIN Docs
    /\ errors' = Append(errors, idx)
    /\ idx' = idx + 1
    /\ UNCHANGED <<pc, sections_order, spine_files, processed_files, all_articles, articles,
                   out_articles, written, unique_articles, index_html, feed, spine_vars>>

\* the content names neither 'The Economist' nor 'economist.com': continue
NotEconomist ==
    /\ InLoop
    /\ filepath \notin processed_files
    /\ filepath \in DOMAIN Docs
    /\ ~Docs[filepath].economist
    /\ idx' = idx + 1
    /\ UNCHANGED <<pc, sections_order, spine_files, processed_files, all_articles, articles,
                   out_articles, written, errors, unique_articles, index_html, feed, spine_vars>>

\* parse_html_file returns: its articles are appended and the path is processed
ParseFile ==
    /\ InLoop
    /\ filepath \notin processed_files
    /\ filepath \in DOMAIN Docs
    /\ Docs[filepath].economist
    /\ LET r == parse_html_file(filepath, out_articles, 0, "open")
       IN  /\ articles' = r.articles
           /\ all_articles' = all_articles \o r.articles
           /\ out_articles' = r.files
           /\ written' = written \o Slugs(r.articles)
    /\ processed_files' = processed_files \cup {filepath}
    /\ idx' = idx + 1
    /\ UNCHANGED <<pc, sections_order, spine_files, errors, unique_articles, index_html, feed, spine_vars>>

\* parse_html_file raises at one of its create_article calls, at the open() of the
\* page or at the print() after it: the pages written before stay, nothing is
\* appended to all_articles, the error is printed
ParseError ==
    /\ InLoop
    /\ filepath \notin processed_files
    /\ filepath \in DOMAIN Docs
    /\ Docs[filepath].economist
    /\ \E failAt \in 1..Len(Prepared[filepath]), failStep \in {"open", "print"} :
          LET r == parse_html_file(filepath, out_articles, failAt, failStep)
          IN  /\ r.raised
              /\ out_articles' = r.files
              /\ written' = written \o Slugs(r.articles)
    /\ errors' = Append(errors, idx)
    /\ idx' = idx + 1
    /\ UNCHANGED <<pc, sections_order, spine_files, processed_files, all_articles, articles,
                   unique_articles, index_html, feed, spine_vars>>

\* if not all_articles: sys.exit(1)
ExitNoArticles ==
    /\ pc = "loop"
    /\ idx > Len(spine_files)
    /\ all_articles = <<>>
    /\ pc' = "exit"
    /\ UNCHANGED <<sections_order, spine_files, idx, processed_files, all_articles, articles,
                   out_articles, written, errors, unique_articles, index_html, feed, spine_vars>>

\* the deduplication by slug
Dedup ==
    /\ pc = "loop"
    /\ idx > Len(spine_files)
    /\ all_articles # <<>>
    /\ unique_articles' = DedupBySlug(all_articles)
    /\ pc' = "index"
    /\ UNCHANGED <<sections_order, spine_files, idx, processed_files, all_articles, articles,
                   out_articles, written, errors, index_html, feed, spine_vars>>

GenerateIndex ==
    /\ pc = "index"
    /\ index_html' = generate_index(unique_articles, sections_order)
    /\ pc' = "rss"
    /\ UNCHANGED <<sections_order, spine_files, idx, processed_files, all_articles, articles,
                   out_articles, written, errors, unique_articles, feed, spine_vars>>

GenerateRss ==
    /\ pc = "rss"
    /\ feed' = generate_rss(unique_articles, out_articles)
    /\ pc' = "done"
    /\ UNCHANGED <<sections_order, spine_files, idx, processed_files, all_articles, articles,
                   out_articles, written, errors, unique_articles, index_html, spine_vars>>

Next ==
    \/ SkipProcessed
    \/ ReadError
    \/ NotEconomist
    \/ ParseFile
    \/ ParseError
    \/ ExitNoArticles
    \/ Dedup
    \/ GenerateIndex
    \/ GenerateRss

Spec == Init /\ [][Next]_vars

(***************************************************************************)
(* get_spine_order as a run of its own                                     *)
(***************************************************************************)
\* main before get_spine_order is called, on a package of at most MaxFiles files
InitSpine ==
    /\ pc = "spine"
    /\ sections_order = <<>>
    /\ spine_files = <<>>
    /\ idx = 1
    /\ processed_files = {}
    /\ all_articles = <<>>
    /\ articles = <<>>
    /\ out_articles = NoFiles
    /\ written = <<>>
    /\ errors = <<>>
    /\ unique_articles = <<>>
    /\ index_html = <<>>
    /\ feed = <<>>
    /\ epub \in { fs \in SUBSET PackageFiles : Cardinality(fs) <= MaxFiles }
    /\ walked \in { w \in [1..Cardinality(epub) -> epub] : IsWalkOf(w, epub) }
    /\ opf_text \in { (ContentOpf :> opf) @@ (OldOpf :> OlderOpf) :
                        opf \in IF ContentOpf \in epub THEN {GoodOpf, UnresolvedOpf, BrokenOpf} ELSE {GoodOpf} }
    /\ opf_path = <<>>
    /\ files = <<>>
    /\ spine_pc = "manifest"

\* find_file(epub_root, '.opf') and the try block: the spine of the descriptor found
ReadManifest ==
    /\ spine_pc = "manifest"
    /\ opf_path' = find_file(walked, <<".","o","p","f">>)
    /\ files' = IF opf_path' = <<>> THEN <<>> ELSE SpineFiles(opf_text[opf_path'], opf_path')
    /\ spine_pc' = "fallback"
    /\ UNCHANGED <<main_vars, epub, walked, opf_text>>

\* if not files: the content documents, sorted
Fallback ==
    /\ spine_pc = "fallback"
    /\ files = <<>>
    /\ files' = FallbackFiles(walked)
    /\ spine_files' = files'
    /\ spine_pc' = "done"
    /\ UNCHANGED <<pc, sections_order, idx, processed_files, all_articles, articles,
                   out_articles, written, errors, unique_articles, index_html, feed,
                   epub, walked, opf_text, opf_path>>

\* return files, when the spine gave some
ReturnSpine ==
    /\ spine_pc = "fallback"
    /\ files # <<>>
    /\ spine_files' = files
    /\ spine_pc' = "done"
    /\ UNCHANGED <<pc, sections_order, idx, processed_files, all_articles, articles,
                   out_articles, written, errors, unique_articles, index_html, feed,
                   epub, walked, opf_text, opf_path, files>>

NextSpine ==
    \/ ReadManifest
    \/ Fallback
    \/ ReturnSpine

SpecSpine == InitSpine /\ [][NextSpine]_vars

(***************************************************************************)
(* Properties of main, checked under Spec                                  *)
(***************************************************************************)
\* the slugs of the pages written before the i-th page
Earlier(i) == { written[j] : j \in 1..(i - 1) }

\* the slug of every title the documents of the package give
SlugOfTitle ==
    [t \in UNION { { Prepared[p][k].title : k \in DOMAIN Prepared[p] } : p \in DOMAIN Docs } |-> Slugify(t)]

\* the slug create_article computed for the i-th page before its uniqueness loop
BaseSlug(i) == SlugOfTitle[out_articles[written[i]].title]

\* C1: no two pages written in a run have the same path under output/articles, and
\* no two article records of the run name the same path, also when their titles are
\* equal or give the same slug.
C1_UniqueOutputPaths ==
    /\ \A i, j \in DOMAIN written : i # j => written[i] # written[j]
    /\ \A i, j \in DOMAIN all_articles : i # j => all_articles[i].path # all_articles[j].path

\* C1, its case: two articles of one run carry the same title, and the uniqueness
\* loop went round twice for the later one.
C1_SameTitleTwice ==
    \E i, j \in DOMAIN all_articles :
        /\ i < j
        /\ all_articles[i].title = all_articles[j].title
        /\ all_articles[j].slug = Suffixed(all_articles[i].slug, 2)

\* C2: the body of every page in output/articles has at least 200 characters,
\* whichever path of parse_html_file made it.
C2_BodyAtLeast200 ==
    \A s \in DOMAIN out_articles : Len(out_articles[s].content) >= MinHtmlContent

\* the document at position k of the reading order was parsed there: it was neither
\* skipped nor did it fail
ParsedAt(k) ==
    /\ k \in 1..(idx - 1)
    /\ spine_files[k] \in processed_files
    /\ k \notin Range(errors)
    /\ \A j \in 1..(k - 1) : spine_files[j] # spine_files[k]

\* the section named by the last "Section | Subtitle" marker of a document
LastSection(doc) == doc.matches[Len(doc.matches)].section

\* a document without markers whose first element is an h1
StartsWithHeading(doc) ==
    /\ doc.body
    /\ doc.matches = <<>>
    /\ Visible(doc.children) # <<>>
    /\ Visible(doc.children)[1].name = <<"h","1">>

\* C3: when the document parsed last starts with an h1 and has no section marker,
\* and the document parsed just before it ended in a section, the articles of the
\* later document carry that section.
C3_SectionCarriesOver ==
    (/\ idx >= 3
     /\ ParsedAt(idx - 1)
     /\ ParsedAt(idx - 2)
     /\ Docs[spine_files[idx - 2]].matches # <<>>
     /\ StartsWithHeading(Docs[spine_files[idx - 1]]))
    => \A i \in DOMAIN articles : articles[i].section = LastSection(Docs[spine_files[idx - 2]])

\* The loop of main over the first n positions of the reading order with the
\* documents that failed left out of the package.
RECURSIVE WithoutFailed(_)
WithoutFailed(n) ==
    IF n = 0 THEN [articles |-> <<>>, files |-> NoFiles, processed |-> {}]
    ELSE LET b    == WithoutFailed(n - 1)
             path == spine_files[n]
         IN  IF \/ n \in Range(errors)
                \/ path \in b.processed
                \/ path \notin DOMAIN Docs
                \/ ~Docs[path].economist
             THEN b
             ELSE LET r == parse_html_file(path, b.files, 0, "open")
                  IN  [articles |-> b.articles \o r.articles, files |-> r.files,
                       processed |-> b.processed \cup {path}]

\* C6: after any number of failing documents the article list is the one the run
\* gives without those documents: same articles, same titles, slugs and paths.
C6_FailureHasNoOtherEffect ==
    all_articles = WithoutFailed(idx - 1).articles

IndexWritten == pc \in {"rss", "done"}

\* C8 as stated: the index lists the articles in discovery order, with a section
\* title before every contiguous run of articles of one section.
C8_IndexInDiscoveryOrder ==
    IndexWritten => index_html = RunGroupedIndex(unique_articles, sections_order)

\* the section titles of the index, in order
IndexHeads == SelectSeq(index_html, LAMBDA e : e.kind = "section-title")

\* the lines of the index between the title of section sec and the next title
IndexLinesOf(sec) ==
    LET h     == CHOOSE i \in DOMAIN index_html :
                     index_html[i].kind = "section-title" /\ index_html[i].text = sec
        later == { i \in (h + 1)..Len(index_html) : index_html[i].kind = "section-title" }
    IN  SubSeq(index_html, h + 1, IF later = {} THEN Len(index_html) ELSE Min(later) - 1)

\* the place of a section in the contents page: the first entry that matches it,
\* or past the end when none does
ContentsRank(sec) ==
    LET hits == { k \in DOMAIN sections_order : FuzzyMatch(sections_order[k], sec) }
    IN  IF hits = {} THEN Len(sections_order) + 1 ELSE Min(hits)

\* the position of the first article of a section
FirstArticleOf(sec) == Min({ i \in DOMAIN unique_articles : unique_articles[i].section = sec })

\* C8: the index has one group per section, whether or not the articles of the
\* section are contiguous; the groups of the sections the contents page matches come
\* first, in contents order, the others follow in order of first appearance; within
\* a group the articles keep their discovery order; every article is listed once.
C8_IndexGroupedBySection ==
    IndexWritten =>
        /\ { IndexHeads[i].text : i \in DOMAIN IndexHeads }
              = { unique_articles[i].section : i \in DOMAIN unique_articles }
        /\ Len(index_html) = Len(IndexHeads) + Len(unique_articles)
        /\ \A i, j \in DOMAIN IndexHeads : i < j =>
              /\ IndexHeads[i].text # IndexHeads[j].text
              /\ \/ ContentsRank(IndexHeads[i].text) < ContentsRank(IndexHeads[j].text)
                 \/ /\ ContentsRank(IndexHeads[i].text) = ContentsRank(IndexHeads[j].text)
                    /\ FirstArticleOf(IndexHeads[i].text) < FirstArticleOf(IndexHeads[j].text)
        /\ \A i \in DOMAIN IndexHeads :
              LET mine == SelectSeq(unique_articles, LAMBDA a : a.section = IndexHeads[i].text)
              IN  IndexLinesOf(IndexHeads[i].text)
                     = [k \in DOMAIN mine |->
                           [kind |-> "article", text |-> mine[k].title, href |-> mine[k].path]]

\* C8, its case: the index is written for articles whose sections go A, B, A, with a
\* contents page that orders them.
C8_SectionReturns ==
    /\ pc = "done"
    /\ sections_order # <<>>
    /\ \E i, j, k \in DOMAIN unique_articles :
          /\ i < j
          /\ j < k
          /\ unique_articles[i].section = unique_articles[k].section
          /\ unique_articles[i].section # unique_articles[j].section

\* C9: every article record and every page of the run has a non-empty title.
C9_TitlesNonEmpty ==
    /\ \A i \in DOMAIN all_articles : all_articles[i].title # <<>>
    /\ \A s \in DOMAIN out_articles : out_articles[s].title # <<>>

\* The titles of the h1 elements of a document that have a title and more than
\* MinHtmlContent characters of markup before the next h1, in document order.
HeadingTitles(doc) ==
    LET children == Visible(doc.children)
        heads    == SelectSeq(Positions(children),
                              LAMBDA h : /\ children[h].name = <<"h","1">>
                                         /\ Strip(children[h].text) # <<>>
                                         /\ Len(get_content_html(children, h)) > MinHtmlContent)
    IN  [k \in DOMAIN heads |-> CleanTitle(Strip(children[heads[k]].text), <<>>)]

\* HeadingTitles of every document without section markers
QualifyingTitles ==
    [p \in { q \in DOMAIN Docs : Docs[q].body /\ Docs[q].matches = <<>> } |-> HeadingTitles(Docs[p])]

\* C10: a document without section markers gives one article for each of its h1
\* elements that has a title and enough markup, in document order.
C10_EveryHeadingYieldsArticle ==
    (/\ idx >= 2
     /\ ParsedAt(idx - 1)
     /\ spine_files[idx - 1] \in DOMAIN QualifyingTitles)
    => LET titled == SelectSeq(articles, LAMBDA a : a.title # <<>>)
       IN  [i \in DOMAIN titled |-> titled[i].title] = QualifyingTitles[spine_files[idx - 1]]

\* main has run its deduplication pass
DedupDone == pc \in {"index", "rss", "done"}

\* C11: the slugs of the article records are pairwise distinct at every point of
\* the run, so the deduplication pass removes nothing: once it has run,
\* unique_articles is all_articles, element for element and in the same order.
C11_DedupRemovesNothing ==
    /\ \A i, j \in DOMAIN all_articles : i # j => all_articles[i].slug # all_articles[j].slug
    /\ DedupDone => unique_articles = all_articles

\* C11, its case: the pass has run on three or more articles, two of which have
\* the same title and so the same slug before the uniqueness loop.
C11_DedupOnCollidingTitles ==
    /\ DedupDone
    /\ Len(unique_articles) >= 3
    /\ \E i, j \in DOMAIN all_articles :
          i < j /\ all_articles[i].title = all_articles[j].title

(***************************************************************************)
(* Properties of get_spine_order, checked under SpecSpine                  *)
(***************************************************************************)
\* the items of a descriptor that enter the id-to-href table
TableItems(opf) == { i \in DOMAIN opf.items : opf.items[i].id # <<>> /\ opf.items[i].href # <<>> }

\* the href the table holds for an id: that of the last item with the id
TableHref(opf, id) ==
    opf.items[Max({ i \in TableItems(opf) : opf.items[i].id = id })].href

\* the spine references of a descriptor whose id is in the table
Resolvable(opf) ==
    { k \in DOMAIN opf.itemrefs : \E i \in TableItems(opf) : opf.items[i].id = opf.itemrefs[k] }

\* the n-th element of a set of numbers, counted from the least
Nth(S, n) == CHOOSE k \in S : Cardinality({ j \in S : j <= k }) = n

\* the descriptors of the package
Descriptors == { f \in epub : EndsWith(Basename(f), <<".","o","p","f">>) }

\* the descriptor found parses and at least one of its spine references resolves
SpineResolves ==
    /\ opf_path # <<>>
    /\ opf_text[opf_path].parses
    /\ Resolvable(opf_text[opf_path]) # {}

\* C4: when the descriptor is found, parses and resolves a reference, the result is
\* the resolvable references of its spine in spine order, each mapped through the
\* id-to-href table to a path beside the descriptor, the others left out; the walk
\* order plays no part, and a package with one descriptor always has it found.
C4_SpineOrder ==
    /\ (spine_pc # "manifest" /\ Cardinality(Descriptors) = 1) => opf_path \in Descriptors
    /\ (spine_pc = "done" /\ SpineResolves) =>
          LET opf == opf_text[opf_path]
          IN  /\ Len(spine_files) = Cardinality(Resolvable(opf))
              /\ \A n \in DOMAIN spine_files :
                    spine_files[n] = PathJoin(Dirname(opf_path),
                                              TableHref(opf, opf.itemrefs[Nth(Resolvable(opf), n)]))

\* C4, its case: get_spine_order has returned the spine of a descriptor that has an
\* unknown reference, a repeated id and a document read twice, found in a package
\* whose walk lists a content document before the descriptor.
C4_SpineReturned ==
    /\ spine_pc = "done"
    /\ opf_path = ContentOpf
    /\ opf_text[opf_path] = GoodOpf
    /\ Len(spine_files) = 3
    /\ \E i, j \in DOMAIN walked : i < j /\ IsContentDocument(walked[i]) /\ walked[j] = ContentOpf

\* C5: when no descriptor is found, or it does not parse, or none of its references
\* resolves, the result is the content documents of the package (.html, .xhtml,
\* .htm), each once, in ascending order of path; with no such file it is empty.
C5_FallbackSorted ==
    (spine_pc = "done" /\ ~SpineResolves) =>
        /\ Range(spine_files) = { f \in epub : IsContentDocument(f) }
        /\ \A i, j \in DOMAIN spine_files : i < j => LexLess(spine_files[i], spine_files[j])

\* C5, its case: the descriptor does not parse, and the walk lists two content
\* documents in descending order of path.
C5_FallbackTaken ==
    /\ spine_pc = "done"
    /\ opf_path = ContentOpf
    /\ ~opf_text[opf_path].parses
    /\ Len(spine_files) >= 2
    /\ \E i, j \in DOMAIN walked :
          /\ i < j
          /\ IsContentDocument(walked[i])
          /\ IsContentDocument(walked[j])
          /\ LexLess(walked[j], walked[i])

====
